---- MODULE Spec2Model ----
(***************************************************************************)
(* Model of the GPA calculator of src/src/App.tsx: the credit list, the    *)
(* derived GPA, the pending form selections and the localStorage slot      *)
(* "credits", with the handlers of the component as actions.               *)
(*                                                                         *)
(* Representation.  A JavaScript string is a sequence of one-character     *)
(* strings (<<"B", "+">> is "B+").  A JavaScript number is an exact        *)
(* fraction [n, d] in lowest terms with d > 0, or NaN ([n |-> 0, d |-> 0]).*)
(* Every number the program computes is a quotient of a multiple of 0.5 by *)
(* a small integer; two such quotients are the same double exactly when    *)
(* they are the same fraction, so the fraction stands for the double.      *)
(* A credit record is a record with fields grade, credits and, when the    *)
(* property exists, note.                                                  *)
(***************************************************************************)
EXTENDS Integers, Sequences, FiniteSets, TLC

(***************************************************************************)
(* Numbers                                                                 *)
(***************************************************************************)
Abs(i) == IF i < 0 THEN 0 - i ELSE i

RECURSIVE Gcd(_, _)
Gcd(a, b) == IF b = 0 THEN a ELSE Gcd(b, a % b)

NaN == [n |-> 0, d |-> 0]

IsNaN(x) == x.d = 0

\* the fraction a/b (b # 0) in lowest terms with a positive denominator
Rat(a, b) ==
    LET g == Gcd(Abs(a), Abs(b))
        s == IF b < 0 THEN 0 - 1 ELSE 1
    IN  [n |-> s * (a \div g), d |-> s * (b \div g)]

Num(i) == [n |-> i, d |-> 1]

NumAdd(x, y) ==
    IF IsNaN(x) \/ IsNaN(y) THEN NaN
    ELSE Rat(x.n * y.d + y.n * x.d, x.d * y.d)

NumMul(x, y) ==
    IF IsNaN(x) \/ IsNaN(y) THEN NaN
    ELSE Rat(x.n * y.n, x.d * y.d)

\* x / y for a divisor that is not zero (the divisor of the program is a
\* sum of credits that are each at least 1)
NumDiv(x, y) ==
    IF IsNaN(x) \/ IsNaN(y) \/ y.n = 0 THEN NaN
    ELSE Rat(x.n * y.d, x.d * y.n)

RECURSIVE Pow10(_)
Pow10(k) == IF k = 0 THEN 1 ELSE 10 * Pow10(k - 1)

(***************************************************************************)
(* Characters                                                              *)
(***************************************************************************)
Digits == <<"0", "1", "2", "3", "4", "5", "6", "7", "8", "9">>

IsDigit(c) == \E i \in 1..10 : Digits[i] = c

DigitVal(c) == (CHOOSE i \in 1..10 : Digits[i] = c) - 1

HexDigits == <<"0", "1", "2", "3", "4", "5", "6", "7", "8", "9",
               "a", "b", "c", "d", "e", "f">>
HexUpper == <<"0", "1", "2", "3", "4", "5", "6", "7", "8", "9",
              "A", "B", "C", "D", "E", "F">>

IsHex(c) == \E i \in 1..16 : HexDigits[i] = c \/ HexUpper[i] = c

HexVal(c) == (CHOOSE i \in 1..16 : HexDigits[i] = c \/ HexUpper[i] = c) - 1

\* JSON whitespace
WhiteSpace == {" ", "\t", "\n", "\r"}

\* the characters below U+0020 that the texts of the model use
ControlChars == {"\t", "\n", "\r", "\f"}

\* the two-character escapes of JSON: the character after the backslash,
\* and the character it stands for
Unescape ==
    [c \in {"\"", "\\", "/", "n", "t", "r", "f"} |->
        CASE c = "n" -> "\n"
          [] c = "t" -> "\t"
          [] c = "r" -> "\r"
          [] c = "f" -> "\f"
          [] OTHER -> c]

\* the code units a \uXXXX escape can name in the model; any other code
\* unit is written as the string "\u" followed by its number
CharOfCode ==
    [k \in {34, 43, 45, 65, 66, 67, 68, 70, 88, 92} |->
        CASE k = 34 -> "\""
          [] k = 43 -> "+"
          [] k = 45 -> "-"
          [] k = 65 -> "A"
          [] k = 66 -> "B"
          [] k = 67 -> "C"
          [] k = 68 -> "D"
          [] k = 70 -> "F"
          [] k = 88 -> "X"
          [] k = 92 -> "\\"]

CodeUnit(k) ==
    IF k \in DOMAIN CharOfCode THEN CharOfCode[k] ELSE "\\u" \o ToString(k)

(***************************************************************************)
(* JSON.parse.  A parsed value is a record tagged by t:                    *)
(*   "null" | "bool" (b) | "num" (num) | "str" (str) | "arr" (elems) |     *)
(*   "obj" (props, a sequence of [key, val], one entry per key).           *)
(* Each parser returns [ok, v, p]: whether it matched, the value and the   *)
(* position after it.  A failure is the SyntaxError JSON.parse throws.     *)
(***************************************************************************)
Fail == [ok |-> FALSE]

Ok(v, p) == [ok |-> TRUE, v |-> v, p |-> p]

RECURSIVE SkipWs(_, _)
SkipWs(txt, p) ==
    IF p <= Len(txt) /\ txt[p] \in WhiteSpace THEN SkipWs(txt, p + 1) ELSE p

\* the position of the first character at or after p that is not a digit
RECURSIVE ScanDigits(_, _)
ScanDigits(txt, p) ==
    IF p <= Len(txt) /\ IsDigit(txt[p]) THEN ScanDigits(txt, p + 1) ELSE p

\* the value of the digits txt[from .. to-1]
RECURSIVE DigitsVal(_, _, _)
DigitsVal(txt, from, to) ==
    IF from >= to THEN 0
    ELSE 10 * DigitsVal(txt, from, to - 1) + DigitVal(txt[to - 1])

HasAt(txt, p, cs) == p <= Len(txt) /\ txt[p] \in cs

NumVal(x, p) == Ok([t |-> "num", num |-> x], p)

\* the exponent digits txt[e0 .. e1-1] applied to the mantissa
NumberExpEnd(txt, mant, eneg, e0, e1) ==
    IF e1 = e0 THEN Fail
    ELSE IF eneg THEN NumVal(NumDiv(mant, Num(Pow10(DigitsVal(txt, e0, e1)))), e1)
    ELSE NumVal(NumMul(mant, Num(Pow10(DigitsVal(txt, e0, e1)))), e1)

\* ([eE] [+-]? [0-9]+)? at f1, after the mantissa
NumberExp(txt, mant, f1) ==
    IF HasAt(txt, f1, {"e", "E"})
    THEN IF HasAt(txt, f1 + 1, {"+", "-"})
         THEN NumberExpEnd(txt, mant, txt[f1 + 1] = "-", f1 + 2,
                           ScanDigits(txt, f1 + 2))
         ELSE NumberExpEnd(txt, mant, FALSE, f1 + 1, ScanDigits(txt, f1 + 1))
    ELSE NumVal(mant, f1)

\* the fraction digits txt[i1+1 .. f1-1] after the integer txt[i0 .. i1-1]
NumberFracEnd(txt, i0, i1, f1) ==
    IF f1 = i1 + 1 THEN Fail
    ELSE NumberExp(txt,
                   NumAdd(Num(DigitsVal(txt, i0, i1)),
                          Rat(DigitsVal(txt, i1 + 1, f1), Pow10(f1 - (i1 + 1)))),
                   f1)

\* (. [0-9]+)? at i1, after the integer digits txt[i0 .. i1-1]
NumberFrac(txt, i0, i1) ==
    IF i1 = i0 THEN Fail
    ELSE IF HasAt(txt, i1, {"."})
    THEN NumberFracEnd(txt, i0, i1, ScanDigits(txt, i1 + 1))
    ELSE NumberExp(txt, Num(DigitsVal(txt, i0, i1)), i1)

\* (0 | [1-9][0-9]*) at i0
NumberInt(txt, i0) ==
    IF HasAt(txt, i0, {"0"}) THEN NumberFrac(txt, i0, i0 + 1)
    ELSE NumberFrac(txt, i0, ScanDigits(txt, i0))

Negate(r) == IF r.ok THEN NumVal(NumMul(Num(0 - 1), r.v.num), r.p) ELSE Fail

\* -? (0 | [1-9][0-9]*) (. [0-9]+)? ([eE] [+-]? [0-9]+)?
ParseNumber(txt, p) ==
    IF HasAt(txt, p, {"-"}) THEN Negate(NumberInt(txt, p + 1))
    ELSE NumberInt(txt, p)

\* the characters of a string literal, from the position after its opening
\* quote up to its closing quote
RECURSIVE ParseChars(_, _, _)
ParseChars(txt, p, acc) ==
    IF p > Len(txt) THEN Fail
    ELSE IF txt[p] = "\"" THEN Ok([t |-> "str", str |-> acc], p + 1)
    ELSE IF txt[p] = "\\" THEN
        IF p + 1 > Len(txt) THEN Fail
        ELSE IF txt[p + 1] \in DOMAIN Unescape
             THEN ParseChars(txt, p + 2, Append(acc, Unescape[txt[p + 1]]))
        ELSE IF txt[p + 1] = "u" /\ p + 5 <= Len(txt)
                /\ \A k \in 2..5 : IsHex(txt[p + k])
             THEN ParseChars(txt, p + 6,
                     Append(acc, CodeUnit(4096 * HexVal(txt[p + 2])
                                          + 256 * HexVal(txt[p + 3])
                                          + 16 * HexVal(txt[p + 4])
                                          + HexVal(txt[p + 5]))))
        ELSE Fail
    ELSE IF txt[p] \in ControlChars THEN Fail
    ELSE ParseChars(txt, p + 1, Append(acc, txt[p]))

ParseString(txt, p) ==
    IF HasAt(txt, p, {"\""}) THEN ParseChars(txt, p + 1, <<>>) ELSE Fail

\* the literal word w at position p
ParseWord(txt, p, w, v) ==
    IF p + Len(w) - 1 <= Len(txt) /\ SubSeq(txt, p, p + Len(w) - 1) = w
    THEN Ok(v, p + Len(w)) ELSE Fail

\* props with key set to val: a repeated key keeps its place and takes the
\* later value
SetProp(props, key, val) ==
    IF \E i \in 1..Len(props) : props[i].key = key
    THEN [i \in 1..Len(props) |->
            IF props[i].key = key THEN [key |-> key, val |-> val] ELSE props[i]]
    ELSE Append(props, [key |-> key, val |-> val])

RECURSIVE ParseValue(_, _)
RECURSIVE ParseElements(_, _, _)
RECURSIVE ParseMembers(_, _, _)

\* the element r just parsed joins acc, and the array goes on after it
ElementsAfter(txt, r, acc) ==
    IF r.ok THEN ParseElements(txt, SkipWs(txt, r.p), Append(acc, r.v)) ELSE Fail

\* the rest of an array at q, after an element: "]", or "," and an element
ParseElements(txt, q, acc) ==
    IF HasAt(txt, q, {"]"}) THEN Ok([t |-> "arr", elems |-> acc], q + 1)
    ELSE IF HasAt(txt, q, {","}) THEN ElementsAfter(txt, ParseValue(txt, q + 1), acc)
    ELSE Fail

\* an array from the position after its "["
ParseArray(txt, q) ==
    IF HasAt(txt, q, {"]"}) THEN Ok([t |-> "arr", elems |-> <<>>], q + 1)
    ELSE ElementsAfter(txt, ParseValue(txt, q), <<>>)

\* the rest of an object at q, after a member: "}", or "," and a member
MemberEnd(txt, q, props) ==
    IF HasAt(txt, q, {"}"}) THEN Ok([t |-> "obj", props |-> props], q + 1)
    ELSE IF HasAt(txt, q, {","}) THEN ParseMembers(txt, q + 1, props)
    ELSE Fail

\* the value r of the member key joins acc
MemberValue(txt, key, r, acc) ==
    IF r.ok THEN MemberEnd(txt, SkipWs(txt, r.p), SetProp(acc, key, r.v)) ELSE Fail

\* the ":" at c and the value after it
MemberColon(txt, key, c, acc) ==
    IF HasAt(txt, c, {":"}) THEN MemberValue(txt, key, ParseValue(txt, c + 1), acc)
    ELSE Fail

\* the key k just parsed
MemberKey(txt, k, acc) ==
    IF k.ok THEN MemberColon(txt, k.v.str, SkipWs(txt, k.p), acc) ELSE Fail

\* one member "key" : value at p, then the rest of the object
ParseMembers(txt, p, acc) == MemberKey(txt, ParseString(txt, SkipWs(txt, p)), acc)

\* an object from the position after its "{"
ParseObject(txt, q) ==
    IF HasAt(txt, q, {"}"}) THEN Ok([t |-> "obj", props |-> <<>>], q + 1)
    ELSE ParseMembers(txt, q, <<>>)

\* a value that starts at p, whitespace skipped
ParseValueAt(txt, p) ==
    IF p > Len(txt) THEN Fail
    ELSE IF txt[p] = "[" THEN ParseArray(txt, SkipWs(txt, p + 1))
    ELSE IF txt[p] = "{" THEN ParseObject(txt, SkipWs(txt, p + 1))
    ELSE IF txt[p] = "\"" THEN ParseString(txt, p)
    ELSE IF txt[p] = "-" \/ IsDigit(txt[p]) THEN ParseNumber(txt, p)
    ELSE IF txt[p] = "t" THEN
        ParseWord(txt, p, <<"t", "r", "u", "e">>, [t |-> "bool", b |-> TRUE])
    ELSE IF txt[p] = "f" THEN
        ParseWord(txt, p, <<"f", "a", "l", "s", "e">>, [t |-> "bool", b |-> FALSE])
    ELSE IF txt[p] = "n" THEN
        ParseWord(txt, p, <<"n", "u", "l", "l">>, [t |-> "null"])
    ELSE Fail

ParseValue(txt, p) == ParseValueAt(txt, SkipWs(txt, p))

\* the whole text must be one value, whitespace around it allowed
WholeText(txt, r) ==
    IF r.ok /\ SkipWs(txt, r.p) = Len(txt) + 1
    THEN [ok |-> TRUE, v |-> r.v] ELSE Fail

\* JSON.parse(txt): [ok |-> TRUE, v |-> value], or [ok |-> FALSE] where the
\* call throws a SyntaxError
JSONParse(txt) == WholeText(txt, ParseValue(txt, 1))

(***************************************************************************)
(* JSON.stringify of the credit list                                       *)
(***************************************************************************)
\* the escape of one character inside a JSON string literal
EscapeChar(c) ==
    CASE c = "\"" -> <<"\\", "\"">>
      [] c = "\\" -> <<"\\", "\\">>
      [] c = "\n" -> <<"\\", "n">>
      [] c = "\t" -> <<"\\", "t">>
      [] c = "\r" -> <<"\\", "r">>
      [] c = "\f" -> <<"\\", "f">>
      [] OTHER -> <<c>>

RECURSIVE EscapeChars(_)
EscapeChars(s) ==
    IF s = <<>> THEN <<>> ELSE EscapeChar(Head(s)) \o EscapeChars(Tail(s))

QuoteJSONString(s) == <<"\"">> \o EscapeChars(s) \o <<"\"">>

\* the decimal digits of a natural number
RECURSIVE NatToString(_)
NatToString(i) ==
    IF i < 10 THEN <<Digits[i + 1]>>
    ELSE NatToString(i \div 10) \o <<Digits[(i % 10) + 1]>>

\* Number.prototype.toString of a number that is a whole number of
\* hundredths and not negative (every number the program prints is one),
\* or of NaN
NumberToString(x) ==
    IF IsNaN(x) THEN <<"N", "a", "N">>
    ELSE LET n  == (100 * x.n) \div x.d
             ip == n \div 100
             f  == n % 100
         IN  IF f = 0 THEN NatToString(ip)
             ELSE IF f % 10 = 0 THEN NatToString(ip) \o <<".">> \o NatToString(f \div 10)
             ELSE NatToString(ip) \o <<".", Digits[(f \div 10) + 1], Digits[(f % 10) + 1]>>

\* a number as JSON.stringify writes it: NaN becomes null
SerializeNumber(x) ==
    IF IsNaN(x) THEN <<"n", "u", "l", "l">> ELSE NumberToString(x)

KeyGrade == <<"g", "r", "a", "d", "e">>
KeyCredits == <<"c", "r", "e", "d", "i", "t", "s">>
KeyNote == <<"n", "o", "t", "e">>

\* one record: its properties in creation order, a missing note left out
SerializeRecord(r) ==
    <<"{">> \o QuoteJSONString(KeyGrade) \o <<":">> \o QuoteJSONString(r.grade)
    \o <<",">> \o QuoteJSONString(KeyCredits) \o <<":">> \o SerializeNumber(r.credits)
    \o (IF "note" \in DOMAIN r
        THEN <<",">> \o QuoteJSONString(KeyNote) \o <<":">> \o QuoteJSONString(r.note)
        ELSE <<>>)
    \o <<"}">>

RECURSIVE SerializeElements(_)
SerializeElements(list) ==
    IF list = <<>> THEN <<>>
    ELSE IF Len(list) = 1 THEN SerializeRecord(list[1])
    ELSE SerializeRecord(Head(list)) \o <<",">> \o SerializeElements(Tail(list))

JSONStringify(list) == <<"[">> \o SerializeElements(list) \o <<"]">>

(***************************************************************************)
(* The validator: creditSchema and creditsSchema (zod)                     *)
(***************************************************************************)
HasProp(obj, key) == \E i \in 1..Len(obj.props) : obj.props[i].key = key

GetProp(obj, key) ==
    obj.props[CHOOSE i \in 1..Len(obj.props) : obj.props[i].key = key].val

\* /^[A-D][+-]?|F$/.test(s).  The alternation binds loosest, so the
\* pattern is ^[A-D][+-]? (anchored at the start only) or F$ (anchored at
\* the end only).  In the first alternative [+-]? consumes a sign when one
\* follows and nothing otherwise, and the match ends there, wherever in s
\* that is.
gradeRegex(s) ==
    \/ /\ HasAt(s, 1, {"A", "B", "C", "D"})
       /\ LET end == IF HasAt(s, 2, {"+", "-"}) THEN 3 ELSE 2
          IN  end <= Len(s) + 1
    \/ \E i \in 1..Len(s) : s[i] = "F" /\ i = Len(s)

\* z.number().int().min(1).max(4)
creditsCheck(v) ==
    /\ v.t = "num"
    /\ v.num.d = 1
    /\ v.num.n >= 1
    /\ v.num.n <= 4

\* creditSchema.safeParse(v).success
creditSchema(v) ==
    /\ v.t = "obj"
    /\ HasProp(v, KeyGrade)
    /\ GetProp(v, KeyGrade).t = "str"
    /\ gradeRegex(GetProp(v, KeyGrade).str)
    /\ HasProp(v, KeyCredits)
    /\ creditsCheck(GetProp(v, KeyCredits))
    /\ HasProp(v, KeyNote) => GetProp(v, KeyNote).t = "str"

\* the data of a successful creditSchema parse: the keys of the schema
\* only (unknown keys are stripped), note only when the input has it
creditData(v) ==
    LET base == [grade |-> GetProp(v, KeyGrade).str,
                 credits |-> GetProp(v, KeyCredits).num]
    IN  IF HasProp(v, KeyNote)
        THEN [grade |-> base.grade, credits |-> base.credits,
              note |-> GetProp(v, KeyNote).str]
        ELSE base

\* creditsSchema keeping the records that pass and dropping the others
creditsSchemaPartial(v) ==
    IF v.t = "arr"
    THEN [success |-> TRUE,
          data |-> LET keep == SelectSeq(v.elems, creditSchema)
                   IN  [i \in 1..Len(keep) |-> creditData(keep[i])]]
    ELSE [success |-> FALSE]

\* creditsSchema.safeParse(v): [success, data]
creditsSchema(v) ==
    IF v.t = "arr" /\ \A i \in 1..Len(v.elems) : creditSchema(v.elems[i])
    THEN [success |-> TRUE,
          data |-> [i \in 1..Len(v.elems) |-> creditData(v.elems[i])]]
    ELSE [success |-> FALSE]

(***************************************************************************)
(* The grade table and the GPA engine                                      *)
(***************************************************************************)
GradeA == <<"A">>
GradeBPlus == <<"B", "+">>
GradeB == <<"B">>
GradeCPlus == <<"C", "+">>
GradeC == <<"C">>
GradeDPlus == <<"D", "+">>
GradeD == <<"D">>
GradeF == <<"F">>

\* Object.keys(gradeValue), in the order of the literal
grades == <<GradeA, GradeBPlus, GradeB, GradeCPlus, GradeC, GradeDPlus,
            GradeD, GradeF>>

gradeValue ==
    [g \in {grades[i] : i \in 1..Len(grades)} |->
        CASE g = GradeA -> Num(4)
          [] g = GradeBPlus -> Rat(7, 2)
          [] g = GradeB -> Num(3)
          [] g = GradeCPlus -> Rat(5, 2)
          [] g = GradeC -> Num(2)
          [] g = GradeDPlus -> Rat(3, 2)
          [] g = GradeD -> Num(1)
          [] g = GradeF -> Num(0)]

\* gradeValue[g] used as a number: a key the table lacks reads undefined,
\* and undefined in a product is NaN
gradeValueOf(g) == IF g \in DOMAIN gradeValue THEN gradeValue[g] ELSE NaN

\* credits.reduce((prev, curr) => prev + curr.credits, 0)
RECURSIVE totalCredit(_)
totalCredit(list) ==
    IF list = <<>> THEN Num(0)
    ELSE NumAdd(totalCredit(SubSeq(list, 1, Len(list) - 1)),
                list[Len(list)].credits)

\* credits.reduce((prev, curr) => prev + gradeValue[curr.grade] * curr.credits, 0)
RECURSIVE totalGrade(_)
totalGrade(list) ==
    IF list = <<>> THEN Num(0)
    ELSE NumAdd(totalGrade(SubSeq(list, 1, Len(list) - 1)),
                NumMul(gradeValueOf(list[Len(list)].grade),
                       list[Len(list)].credits))

\* whether the double nearest to p/q (p, q > 0) lies below p/q: the first
\* 53 significant bits of p/q by long division, then round to nearest, ties
\* to even, on the remainder
RECURSIVE DivBits(_, _, _, _)
DivBits(rem, q, k, last) ==
    IF k = 0 THEN [rem |-> rem, last |-> last]
    ELSE LET r2 == 2 * rem
         IN  IF r2 >= q THEN DivBits(r2 - q, q, k - 1, 1)
             ELSE DivBits(r2, q, k - 1, 0)

\* p/q scaled by a power of two into [1, 2): the scaling changes neither
\* the significand nor the direction of the rounding
RECURSIVE Normalize(_, _)
Normalize(p, q) ==
    IF p >= 2 * q THEN Normalize(p, 2 * q)
    ELSE IF p < q THEN Normalize(2 * p, q)
    ELSE [p |-> p, q |-> q]

\* round to nearest, ties to even, on the remainder rem of the division by
\* q after the 53rd bit last: whether the double is below the quotient
RoundsBelow(rem, last, q) ==
    rem > 0 /\ (2 * rem < q \/ (2 * rem = q /\ last = 0))

BitsBelow(r, q) == RoundsBelow(r.rem, r.last, q)

NormalizedBelow(m) == BitsBelow(DivBits(m.p - m.q, m.q, 52, 1), m.q)

DoubleBelow(p, q) == NormalizedBelow(Normalize(p, q))

\* val.toFixed(decimals) for val >= 0, as the integer n of units of
\* 10^-decimals it prints: the n with n / 10^decimals nearest to the double,
\* the larger n on a tie.  The double differs from the fraction p/q by less
\* than 2^-50, so it is on the same side of every half unit that p/q is not
\* exactly on; when p/q is exactly on one, the side is the direction of the
\* rounding of p/q.
toFixed(val, decimals) ==
    LET h  == Pow10(decimals) * val.n
        lo == h \div val.d
        r  == h % val.d
    IN  IF 2 * r < val.d THEN lo
        ELSE IF 2 * r > val.d THEN lo + 1
        ELSE IF DoubleBelow(val.n, val.d) THEN lo ELSE lo + 1

\* round(val, decimals):
\*   +(Math.round(+(val.toFixed(decimals) + "e+" + decimals)) + "e-" + decimals)
\* The inner number is the integer toFixed printed, which Math.round leaves
\* alone; NaN prints as "NaN" and stays NaN throughout.
round(val, decimals) ==
    IF IsNaN(val) THEN NaN
    ELSE Rat(toFixed(val, decimals), Pow10(decimals))

TitleEmpty == <<"W", "h", "a", "t", " ", "m", "y", " ", "G", "P", "A">>
TitlePrefix == <<"G", "P", "A", ":", " ">>

\* setGpa(gpa) and document.title = `GPA: ${round(gpa, 2)}`
setGpaAndTitle(g) ==
    [gpa |-> g, title |-> TitlePrefix \o NumberToString(round(g, 2))]

\* calculateGpa dividing by the number of records instead of the credit total
calculateGpaByCount(list) ==
    IF Len(list) = 0
    THEN [gpa |-> Num(0), title |-> TitleEmpty]
    ELSE setGpaAndTitle(NumDiv(totalGrade(list), Num(Len(list))))

\* calculateGpa without the early return for the empty list
calculateGpaNoEmptyCase(list) ==
    setGpaAndTitle(NumDiv(totalGrade(list), totalCredit(list)))

\* calculateGpa(credits): the gpa it sets and the document title it writes
calculateGpa(list) ==
    IF Len(list) = 0
    THEN [gpa |-> Num(0), title |-> TitleEmpty]
    ELSE setGpaAndTitle(NumDiv(totalGrade(list), totalCredit(list)))

(***************************************************************************)
(* The component state                                                     *)
(***************************************************************************)
VARIABLES
    gpa,        \* useState<number>(0)
    credits,    \* useState<CreditsSchema>([])
    grade,      \* useState<grade | null>(null): Null, or Some(grade)
    credit,     \* useState<number | null>(null): Null, or Some(number)
    note,       \* useState<string>("")
    storage,    \* localStorage "credits": Null when the key is absent
    title,      \* document.title
    pc,         \* "mount": rendered, the effect not yet run; "ready";
                \* "crashed": the effect threw and the component is gone
    last,       \* history: the last of load, add, remove and removeAll to
                \* have run ("addNoop": an add that returned early)
    mutated,    \* history: whether an add, remove or removeAll has changed
                \* the list since the mount
    isHover     \* useState(false): the pointer is over the GPA line

vars == <<gpa, credits, grade, credit, note, storage, title, pc, last, mutated,
          isHover>>

Null == <<>>

Some(x) == <<x>>

\* the list length up to which the model lets the user add
MaxLen == 2

\* the grade options the model's user picks from (all of grades are
\* offered)
GradeChoices == {GradeA, GradeB, GradeF}

\* the option values of the credit select the model's user picks from
\* ([1, 2, 3, 4] are offered)
CreditChoices == {<<"2">>, <<"3">>}

\* the texts the model's user types into the note input
NoteChoices == {<<>>, <<"\"">>}

\* parseInt(value) of an option value: its leading digits, NaN without any
parseInt(value) ==
    LET e == ScanDigits(value, 1)
    IN  IF e = 1 THEN NaN ELSE Num(DigitsVal(value, 1, e))

\* !x for x a string | null, and for x a number | null
NotString(x) == x = Null \/ x[1] = <<>>
NotNumber(x) == x = Null \/ IsNaN(x[1]) \/ x[1].n = 0

EmptyArrayText == <<"[", "]">>

(***************************************************************************)
(* What the slot can hold when the component mounts: localStorage outlives *)
(* the page, and anything can have written it.                             *)
(***************************************************************************)
\* the empty string
TextEmpty ==
    <<>>

\* []
TextEmptyArray ==
    <<"[", "]">>

\* [{"grade":"A","credits":3}]
TextOneNoNote ==
    <<"[", "{", "\"", "g", "r", "a", "d", "e", "\"", ":", "\"", "A", "\"",
      ",", "\"", "c", "r", "e", "d", "i", "t", "s", "\"", ":", "3", "}", "]">>

\* [{"grade":"B+","credits":1,"note":"x"},{"grade":"B","credits":3,"note":""}]
TextTwo ==
    <<"[", "{", "\"", "g", "r", "a", "d", "e", "\"", ":", "\"", "B", "+",
      "\"", ",", "\"", "c", "r", "e", "d", "i", "t", "s", "\"", ":", "1",
      ",", "\"", "n", "o", "t", "e", "\"", ":", "\"", "x", "\"", "}", ",",
      "{", "\"", "g", "r", "a", "d", "e", "\"", ":", "\"", "B", "\"", ",",
      "\"", "c", "r", "e", "d", "i", "t", "s", "\"", ":", "3", ",", "\"",
      "n", "o", "t", "e", "\"", ":", "\"", "\"", "}", "]">>

\* [{"grade":"X","credits":3}]
TextBadGrade ==
    <<"[", "{", "\"", "g", "r", "a", "d", "e", "\"", ":", "\"", "X", "\"",
      ",", "\"", "c", "r", "e", "d", "i", "t", "s", "\"", ":", "3", "}", "]">>

\* [{"grade":"A","credits":3},{"grade":"A","credits":5}]
TextBadSecond ==
    <<"[", "{", "\"", "g", "r", "a", "d", "e", "\"", ":", "\"", "A", "\"",
      ",", "\"", "c", "r", "e", "d", "i", "t", "s", "\"", ":", "3", "}", ",",
      "{", "\"", "g", "r", "a", "d", "e", "\"", ":", "\"", "A", "\"", ",",
      "\"", "c", "r", "e", "d", "i", "t", "s", "\"", ":", "5", "}", "]">>

\* [{"grade":"A","credits":1.5}]
TextFraction ==
    <<"[", "{", "\"", "g", "r", "a", "d", "e", "\"", ":", "\"", "A", "\"",
      ",", "\"", "c", "r", "e", "d", "i", "t", "s", "\"", ":", "1", ".", "5",
      "}", "]">>

\* [{"grade":"A-","credits":3}]
TextMinus ==
    <<"[", "{", "\"", "g", "r", "a", "d", "e", "\"", ":", "\"", "A", "-",
      "\"", ",", "\"", "c", "r", "e", "d", "i", "t", "s", "\"", ":", "3",
      "}", "]">>

\* [{"grade":"XF","credits":2}]
TextEndsF ==
    <<"[", "{", "\"", "g", "r", "a", "d", "e", "\"", ":", "\"", "X", "F",
      "\"", ",", "\"", "c", "r", "e", "d", "i", "t", "s", "\"", ":", "2",
      "}", "]">>

\* {"grade":"A","credits":3}
TextObject ==
    <<"{", "\"", "g", "r", "a", "d", "e", "\"", ":", "\"", "A", "\"", ",",
      "\"", "c", "r", "e", "d", "i", "t", "s", "\"", ":", "3", "}">>

\* null
TextNull ==
    <<"n", "u", "l", "l">>

\* [{"grade":"C","credits":2,"extra":true}]
TextExtraKey ==
    <<"[", "{", "\"", "g", "r", "a", "d", "e", "\"", ":", "\"", "C", "\"",
      ",", "\"", "c", "r", "e", "d", "i", "t", "s", "\"", ":", "2", ",",
      "\"", "e", "x", "t", "r", "a", "\"", ":", "t", "r", "u", "e", "}", "]">>

\*  [ { "grade" : "\u0041" , "credits" : 2e0 } ] 
TextSpaced ==
    <<" ", "[", " ", "{", " ", "\"", "g", "r", "a", "d", "e", "\"", " ", ":",
      " ", "\"", "\\", "u", "0", "0", "4", "1", "\"", " ", ",", " ", "\"",
      "c", "r", "e", "d", "i", "t", "s", "\"", " ", ":", " ", "2", "e", "0",
      " ", "}", " ", "]", " ">>

\* [{"grade":"A","credits":"3"}]
TextCreditString ==
    <<"[", "{", "\"", "g", "r", "a", "d", "e", "\"", ":", "\"", "A", "\"",
      ",", "\"", "c", "r", "e", "d", "i", "t", "s", "\"", ":", "\"", "3",
      "\"", "}", "]">>

\* [{"grade":"A","credits":3,"note":null}]
TextNoteNull ==
    <<"[", "{", "\"", "g", "r", "a", "d", "e", "\"", ":", "\"", "A", "\"",
      ",", "\"", "c", "r", "e", "d", "i", "t", "s", "\"", ":", "3", ",",
      "\"", "n", "o", "t", "e", "\"", ":", "n", "u", "l", "l", "}", "]">>

\* [{"grade":"X","grade":"D","credits":1}]
TextTwiceGrade ==
    <<"[", "{", "\"", "g", "r", "a", "d", "e", "\"", ":", "\"", "X", "\"",
      ",", "\"", "g", "r", "a", "d", "e", "\"", ":", "\"", "D", "\"", ",",
      "\"", "c", "r", "e", "d", "i", "t", "s", "\"", ":", "1", "}", "]">>

\* oops
TextNotJson ==
    <<"o", "o", "p", "s">>

\* [{"grade":"A"
TextTruncated ==
    <<"[", "{", "\"", "g", "r", "a", "d", "e", "\"", ":", "\"", "A", "\"">>

PersistedTexts ==
    {TextEmpty, TextEmptyArray, TextOneNoNote, TextTwo,
     TextBadGrade, TextBadSecond, TextFraction, TextMinus,
     TextEndsF, TextObject, TextNull, TextExtraKey,
     TextSpaced, TextCreditString, TextNoteNull, TextTwiceGrade,
     TextNotJson, TextTruncated}

Init ==
    /\ gpa = Num(0)
    /\ credits = <<>>
    /\ grade = Null
    /\ credit = Null
    /\ note = <<>>
    /\ title = TitleEmpty
    /\ storage \in {Null} \cup {Some(t) : t \in PersistedTexts}
    /\ pc = "mount"
    /\ last = "mount"
    /\ mutated = FALSE
    /\ isHover = FALSE

(***************************************************************************)
(* The handlers                                                            *)
(***************************************************************************)
Min(a, b) == IF a < b THEN a ELSE b

Max(a, b) == IF a > b THEN a ELSE b

\* list without the actualCount elements after its first actualStart
deleteAt(list, actualStart, actualCount) ==
    SubSeq(list, 1, actualStart)
    \o SubSeq(list, actualStart + actualCount + 1, Len(list))

\* the deletion clamped to what the list has from actualStart on
deleteFrom(list, actualStart, deleteCount) ==
    deleteAt(list, actualStart, Min(Max(deleteCount, 0), Len(list) - actualStart))

\* splice deleting from the position after start
spliceFromNext(list, start, deleteCount) ==
    IF start < 0 THEN deleteFrom(list, Max(Len(list) + start + 1, 0), deleteCount)
    ELSE deleteFrom(list, Min(start + 1, Len(list)), deleteCount)

\* list after list.splice(start, deleteCount), start counted from 0: a
\* negative start counts from the end, and both are clamped to the list
splice(list, start, deleteCount) ==
    IF start < 0 THEN deleteFrom(list, Max(Len(list) + start, 0), deleteCount)
    ELSE deleteFrom(list, Min(start, Len(list)), deleteCount)

\* the state a thrown exception leaves: React unmounts the component
Crashed(before) ==
    [pc |-> "crashed", credits |-> before.credits, gpa |-> before.gpa,
     title |-> before.title]

\* the state when the effect returns without setting anything
Untouched(before) ==
    [pc |-> "ready", credits |-> before.credits, gpa |-> before.gpa,
     title |-> before.title]

\* setCredits(() => parsed.data); calculateGpa(parsed.data)
Loaded(data, calc) ==
    [pc |-> "ready", credits |-> data, gpa |-> calc.gpa, title |-> calc.title]

\* if (parsed.success) { ... } without the call of calculateGpa
onParsedNoGpa(parsed, before) ==
    IF parsed.success
    THEN [pc |-> "ready", credits |-> parsed.data, gpa |-> before.gpa,
          title |-> before.title]
    ELSE Untouched(before)

\* if (parsed.success) { setCredits(...); calculateGpa(parsed.data) }
onParsed(parsed, before) ==
    IF parsed.success THEN Loaded(parsed.data, calculateGpa(parsed.data))
    ELSE Untouched(before)

\* the effect after JSON.parse, which either threw or returned json.v
onJson(json, before) ==
    IF json.ok THEN onParsed(creditsSchema(json.v), before) ELSE Crashed(before)

onJsonNoGpa(json, before) ==
    IF json.ok THEN onParsedNoGpa(creditsSchema(json.v), before) ELSE Crashed(before)

\* localStorage.getItem("credits") || "[]"
itemOrDefault(item) ==
    IF item = Null \/ item[1] = <<>> THEN EmptyArrayText ELSE item[1]

\* the effect without the call of calculateGpa after a successful parse
useEffectLoadNoGpa(item, before) ==
    onJsonNoGpa(JSONParse(itemOrDefault(item)), before)

\* the body of the effect that runs once after the first render, run on the
\* slot content item from the component state before: the pc, credits, gpa
\* and title it leaves.  JSON.parse throws on text that is not JSON and
\* nothing in the effect catches it.
useEffectLoad(item, before) == onJson(JSONParse(itemOrDefault(item)), before)

setLoaded(after) ==
    /\ pc' = after.pc
    /\ credits' = after.credits
    /\ gpa' = after.gpa
    /\ title' = after.title

\* the load writing back what it decoded, and clearing what it rejected
LoadWritesBack ==
    /\ pc = "mount"
    /\ setLoaded(useEffectLoad(storage, [credits |-> credits, gpa |-> gpa,
                                         title |-> title]))
    /\ storage' = IF credits' = <<>> THEN Null ELSE Some(JSONStringify(credits'))
    /\ last' = "load"
    /\ UNCHANGED <<grade, credit, note, mutated, isHover>>

Load ==
    /\ pc = "mount"
    /\ setLoaded(useEffectLoad(storage, [credits |-> credits, gpa |-> gpa,
                                         title |-> title]))
    /\ last' = "load"
    /\ UNCHANGED <<grade, credit, note, storage, mutated, isHover>>

handleGrade(value) ==
    /\ pc = "ready"
    /\ grade' = Some(value)
    /\ UNCHANGED <<gpa, credits, credit, note, storage, title, pc, last, mutated, isHover>>

handleCredit(value) ==
    /\ pc = "ready"
    /\ credit' = Some(parseInt(value))
    /\ UNCHANGED <<gpa, credits, grade, note, storage, title, pc, last, mutated, isHover>>

handleNote(value) ==
    /\ pc = "ready"
    /\ note' = value
    /\ UNCHANGED <<gpa, credits, grade, credit, storage, title, pc, last, mutated, isHover>>

\* setGpa and document.title, from the result of calculateGpa
setCalculated(calc) == gpa' = calc.gpa /\ title' = calc.title

\* setCredits(() => currCredits); calculateGpa(currCredits);
\* localStorage.setItem("credits", JSON.stringify(currCredits))
setAndPersist(currCredits) ==
    /\ credits' = currCredits
    /\ setCalculated(calculateGpa(currCredits))
    /\ storage' = Some(JSONStringify(currCredits))

\* the new record put in front of the list
addedCreditsFront ==
    <<[grade |-> grade[1], credits |-> credit[1], note |-> note]>> \o credits

\* [...credits, { grade, credits: credit, note }]
addedCredits == Append(credits, [grade |-> grade[1], credits |-> credit[1], note |-> note])

\* handleAdd writing the list of before the add to the slot
handleAddStaleSlot ==
    /\ pc = "ready"
    /\ IF NotString(grade) \/ NotNumber(credit)
       THEN /\ last' = "addNoop"
            /\ UNCHANGED <<gpa, credits, note, storage, title, mutated>>
       ELSE /\ Len(credits) < MaxLen
            /\ credits' = addedCredits
            /\ setCalculated(calculateGpa(addedCredits))
            /\ storage' = Some(JSONStringify(credits))
            /\ note' = <<>>
            /\ last' = "add"
            /\ mutated' = TRUE
    /\ UNCHANGED <<grade, credit, pc, isHover>>

\* handleAdd clearing the note before it looks at the selections
handleAddClearsNote ==
    /\ pc = "ready"
    /\ IF NotString(grade) \/ NotNumber(credit)
       THEN /\ last' = "addNoop"
            /\ note' = <<>>
            /\ UNCHANGED <<gpa, credits, storage, title, mutated>>
       ELSE /\ Len(credits) < MaxLen
            /\ setAndPersist(addedCredits)
            /\ note' = <<>>
            /\ last' = "add"
            /\ mutated' = TRUE
    /\ UNCHANGED <<grade, credit, pc, isHover>>

\* handleAdd resetting the two selects after a successful add
handleAddResetsSelects ==
    /\ pc = "ready"
    /\ IF NotString(grade) \/ NotNumber(credit)
       THEN /\ last' = "addNoop"
            /\ UNCHANGED <<gpa, credits, note, storage, title, mutated, grade, credit>>
       ELSE /\ Len(credits) < MaxLen
            /\ setAndPersist(addedCredits)
            /\ note' = <<>>
            /\ grade' = Null
            /\ credit' = Null
            /\ last' = "add"
            /\ mutated' = TRUE
    /\ UNCHANGED <<pc, isHover>>

handleAdd ==
    /\ pc = "ready"
    /\ IF NotString(grade) \/ NotNumber(credit)
       THEN /\ last' = "addNoop"
            /\ UNCHANGED <<gpa, credits, note, storage, title, mutated>>
       ELSE /\ Len(credits) < MaxLen
            /\ setAndPersist(addedCredits)
            /\ note' = <<>>
            /\ last' = "add"
            /\ mutated' = TRUE
    /\ UNCHANGED <<grade, credit, pc, isHover>>

\* let currCredits = [...credits]; currCredits.splice(index, 1)
removedCredits(index) == splice(credits, index, 1)

\* handleRemove without the call of calculateGpa
handleRemoveStaleGpa(index) ==
    /\ pc = "ready"
    /\ credits' = removedCredits(index)
    /\ storage' = Some(JSONStringify(removedCredits(index)))
    /\ last' = "remove"
    /\ mutated' = TRUE
    /\ UNCHANGED <<gpa, title, grade, credit, note, pc, isHover>>

handleRemove(index) ==
    /\ pc = "ready"
    /\ setAndPersist(removedCredits(index))
    /\ last' = "remove"
    /\ mutated' = TRUE
    /\ UNCHANGED <<grade, credit, note, pc, isHover>>

\* handleRemoveAll writing an encoded empty list instead of removing the key
handleRemoveAllSetsEmpty ==
    /\ pc = "ready"
    /\ Len(credits) # 0
    /\ credits' = <<>>
    /\ setCalculated(calculateGpa(<<>>))
    /\ storage' = Some(JSONStringify(<<>>))
    /\ last' = "removeAll"
    /\ mutated' = TRUE
    /\ UNCHANGED <<grade, credit, note, pc, isHover>>

\* the button is disabled while the list is empty
handleRemoveAll ==
    /\ pc = "ready"
    /\ Len(credits) # 0
    /\ credits' = <<>>
    /\ setCalculated(calculateGpa(<<>>))
    /\ storage' = Null
    /\ last' = "removeAll"
    /\ mutated' = TRUE
    /\ UNCHANGED <<grade, credit, note, pc, isHover>>

\* <h3 onMouseEnter={() => setIsHover(true)}>
onMouseEnter ==
    /\ pc = "ready"
    /\ isHover' = TRUE
    /\ UNCHANGED <<gpa, credits, grade, credit, note, storage, title, pc, last, mutated>>

\* <h3 onMouseLeave={() => setIsHover(false)}>
onMouseLeave ==
    /\ pc = "ready"
    /\ isHover' = FALSE
    /\ UNCHANGED <<gpa, credits, grade, credit, note, storage, title, pc, last, mutated>>

\* Your GPA is {isHover ? gpa : round(gpa, 2)}: the number the line shows
displayedGpa == IF isHover THEN gpa ELSE round(gpa, 2)

\* one row, and one remove button, per record: index is 0 .. length-1
Next ==
    \/ Load
    \/ \E value \in GradeChoices : handleGrade(value)
    \/ \E value \in CreditChoices : handleCredit(value)
    \/ \E value \in NoteChoices : handleNote(value)
    \/ handleAdd
    \/ \E index \in 0..(Len(credits) - 1) : handleRemove(index)
    \/ handleRemoveAll
    \/ onMouseEnter
    \/ onMouseLeave

Spec == Init /\ [][Next]_vars

(***************************************************************************)
(* The GPA engine on its own: calculateGpa applied to every list of at     *)
(* most GpaMaxLen records over the whole grade table and every credit      *)
(* value.                                                                  *)
(***************************************************************************)
GpaMaxLen == 2

CreditValues == 1..4

InitGpa ==
    /\ gpa = Num(0)
    /\ credits = <<>>
    /\ grade = Null
    /\ credit = Null
    /\ note = <<>>
    /\ title = TitleEmpty
    /\ storage = Null
    /\ pc = "engine"
    /\ last = "mount"
    /\ mutated = FALSE
    /\ isHover = FALSE

EngineStep ==
    /\ pc = "engine"
    /\ Len(credits) < GpaMaxLen
    /\ \E g \in DOMAIN gradeValue, c \in CreditValues :
          /\ credits' = Append(credits, [grade |-> g, credits |-> Num(c)])
          /\ setCalculated(calculateGpa(credits'))
    /\ UNCHANGED <<grade, credit, note, storage, pc, last, mutated, isHover>>

SpecGpa == InitGpa /\ [][EngineStep]_vars

(***************************************************************************)
(* The validator's grade pattern on its own: the component mounts on a    *)
(* slot holding one record whose grade is any string of at most            *)
(* GradeTextMaxLen characters of GradeAlphabet, and the load validates it. *)
(***************************************************************************)
GradeTextMaxLen == 3

\* the ends of the range A-D, the letter after it, F, a letter of neither
\* alternative, and the two signs
GradeAlphabet == {"A", "D", "E", "F", "X", "+", "-"}

GradeTexts == UNION {[1..k -> GradeAlphabet] : k \in 0..GradeTextMaxLen}

InitGrade ==
    /\ gpa = Num(0)
    /\ credits = <<>>
    /\ grade = Null
    /\ credit = Null
    /\ note = <<>>
    /\ title = TitleEmpty
    /\ storage \in {Some(JSONStringify(<<[grade |-> s, credits |-> Num(1)]>>)) :
                       s \in GradeTexts}
    /\ pc = "mount"
    /\ last = "mount"
    /\ mutated = FALSE
    /\ isHover = FALSE

SpecGrade == InitGrade /\ [][Load]_vars

(***************************************************************************)
(* The GPA line: the component mounts on a list an earlier session saved,  *)
(* among them one whose GPA lies halfway between two hundredths.           *)
(***************************************************************************)
\* 3.5 + 16 + 16 + 8 + 10 + 0 = 53.5 quality points over 20 credits: 2.675
ListTie ==
    <<[grade |-> GradeBPlus, credits |-> Num(1), note |-> <<>>],
      [grade |-> GradeA, credits |-> Num(4), note |-> <<>>],
      [grade |-> GradeA, credits |-> Num(4), note |-> <<>>],
      [grade |-> GradeC, credits |-> Num(4), note |-> <<>>],
      [grade |-> GradeCPlus, credits |-> Num(4), note |-> <<>>],
      [grade |-> GradeF, credits |-> Num(3), note |-> <<>>]>>

\* 8 + 3 = 11 quality points over 3 credits: 3.666...
ListThirds ==
    <<[grade |-> GradeA, credits |-> Num(2), note |-> <<>>],
      [grade |-> GradeB, credits |-> Num(1), note |-> <<>>]>>

DisplayTexts == {JSONStringify(ListTie), JSONStringify(ListThirds), TextTwo}

InitDisplay ==
    /\ gpa = Num(0)
    /\ credits = <<>>
    /\ grade = Null
    /\ credit = Null
    /\ note = <<>>
    /\ title = TitleEmpty
    /\ storage \in {Some(t) : t \in DisplayTexts}
    /\ pc = "mount"
    /\ last = "mount"
    /\ mutated = FALSE
    /\ isHover = FALSE

SpecDisplay == InitDisplay /\ [][Next]_vars

(***************************************************************************)
(* handleRemove called with any index: the rows only ever pass an index   *)
(* of the list, this specification also passes the indices around it.      *)
(***************************************************************************)
\* the index before the first record, and the two after the last
OutOfRange == {-1, Len(credits), Len(credits) + 1}

NextAnyIndex ==
    \/ Next
    \/ \E index \in OutOfRange : handleRemove(index)

SpecAnyIndex == Init /\ [][NextAnyIndex]_vars

(***************************************************************************)
(* Properties                                                              *)
(***************************************************************************)
\* the quality values of the grade table, counted in halves of a point
QualityHalves(g) ==
    CASE g = <<"A">> -> 8
      [] g = <<"B", "+">> -> 7
      [] g = <<"B">> -> 6
      [] g = <<"C", "+">> -> 5
      [] g = <<"C">> -> 4
      [] g = <<"D", "+">> -> 3
      [] g = <<"D">> -> 2
      [] g = <<"F">> -> 0

RECURSIVE SumHalves(_, _)
SumHalves(list, i) ==
    IF i = 0 THEN 0
    ELSE SumHalves(list, i - 1) + QualityHalves(list[i].grade) * list[i].credits.n

RECURSIVE SumCredits(_, _)
SumCredits(list, i) ==
    IF i = 0 THEN 0 ELSE SumCredits(list, i - 1) + list[i].credits.n

\* C1: for every non-empty list of valid records the GPA calculateGpa sets
\* is the sum of quality(grade) * credits divided by the sum of credits:
\* as fractions, gpa.n / gpa.d = (halves / 2) / credits.
C1_WeightedMean ==
    (pc = "engine" /\ credits # <<>>) =>
        /\ gpa.d > 0
        /\ gpa.n * 2 * SumCredits(credits, Len(credits))
             = gpa.d * SumHalves(credits, Len(credits))

\* A/3 then B/2: (12 + 6) / 5 = 3.6
C1_Witness ==
    /\ pc = "engine"
    /\ credits = <<[grade |-> GradeA, credits |-> Num(3)],
                   [grade |-> GradeB, credits |-> Num(2)]>>
    /\ gpa = Rat(18, 5)

\* C2: the stored gpa is always the engine's result for the current list,
\* after the load and after every add, remove and removeAll.
C2_GpaDerived == gpa = calculateGpa(credits).gpa

\* add A/3 (4.0), add B/2 (3.6), remove index 0: the B record alone, 3.0
C2_Witness ==
    /\ last = "remove"
    /\ Len(credits) = 1
    /\ credits[1].grade = GradeB
    /\ credits[1].credits = Num(2)
    /\ gpa = Num(3)

\* the eight tokens of the grade table
GradeTokens ==
    {<<"A">>, <<"B", "+">>, <<"B">>, <<"C", "+">>, <<"C">>, <<"D", "+">>,
     <<"D">>, <<"F">>}

ValidRecord(r) ==
    /\ r.grade \in GradeTokens
    /\ r.credits.d = 1
    /\ r.credits.n >= 1
    /\ r.credits.n <= 4

ValidList(list) == \A i \in 1..Len(list) : ValidRecord(list[i])

\* C3: every record of the in-memory list is valid: its grade is one of the
\* eight tokens and its credits is an integer from 1 to 4.
C3_AllRecordsValid == ValidList(credits)

\* the component state before the effect runs
Fresh == [credits |-> <<>>, gpa |-> Num(0), title |-> TitleEmpty]

\* the validator gives list
SchemaGives(parsed, list) == parsed.success /\ parsed.data = list

JsonGives(json, list) == json.ok /\ SchemaGives(creditsSchema(json.v), list)

\* the list the slot decodes to: empty for an absent key
SlotDecodes(list) ==
    IF storage = Null THEN list = <<>>
    ELSE JsonGives(JSONParse(storage[1]), list)

\* C4: right after an add or a remove the slot holds the encoding of the
\* whole current list, after removeAll the key is absent, and once a
\* mutation has happened the slot decodes to the in-memory list.
C4_SlotMirrorsList ==
    /\ last \in {"add", "remove"} => storage = Some(JSONStringify(credits))
    /\ last = "removeAll" => storage = Null
    /\ mutated => SlotDecodes(credits)

C4_Witness ==
    /\ last = "add"
    /\ Len(credits) = 2
    /\ credits[1] # credits[2]
    /\ storage # Null
    /\ SlotDecodes(credits)

\* C5: persisting a valid list and running the load on a fresh component
\* gives back the same list, record for record, with the GPA of that list.
C5_RoundTrip ==
    ValidList(credits) =>
        useEffectLoad(Some(JSONStringify(credits)), Fresh)
            = [pc |-> "ready", credits |-> credits,
               gpa |-> calculateGpa(credits).gpa,
               title |-> calculateGpa(credits).title]

\* a list of two records, one with a note that needs escaping
C5_Witness ==
    /\ Len(credits) = 2
    /\ ValidList(credits)
    /\ "note" \in DOMAIN credits[2]
    /\ credits[2].note = <<"\"">>
    /\ gpa # Num(0)
    /\ useEffectLoad(Some(JSONStringify(credits)), Fresh).credits = credits

\* json is an array with a record the schema rejects
HasRejected(json) ==
    /\ json.ok
    /\ json.v.t = "arr"
    /\ \E i \in 1..Len(json.v.elems) : ~creditSchema(json.v.elems[i])

\* the slot holds text that parses to an array with a record the schema
\* rejects
RecordRejected ==
    /\ storage # Null
    /\ storage[1] # <<>>
    /\ HasRejected(JSONParse(storage[1]))

\* C6: when the key is missing, or the data parses but one record violates
\* the schema, the load admits nothing: the list is empty and the GPA is 0.
C6_LoadAllOrNothing ==
    (last = "load" /\ (storage = Null \/ RecordRejected)) =>
        /\ pc = "ready"
        /\ credits = <<>>
        /\ gpa = Num(0)

\* a valid record followed by one with credits 5
C6_Witness ==
    /\ last = "load"
    /\ storage = Some(TextBadSecond)
    /\ RecordRejected
    /\ credits = <<>>

\* the slot holds text that is not JSON
Unparsable == storage # Null /\ storage[1] # <<>> /\ ~JSONParse(storage[1]).ok

\* C7: when the persisted text cannot be parsed, the load falls back to the
\* empty list with GPA 0 and the component stays usable.
C7_LoadFallsBack ==
    (last = "load" /\ Unparsable) =>
        /\ pc = "ready"
        /\ credits = <<>>
        /\ gpa = Num(0)

\* C8: an add with the grade or the credit unselected changes neither the
\* list, the GPA, the slot nor the pending note.
C8_AddNoop ==
    [][(handleAdd /\ (grade = Null \/ credit = Null))
          => UNCHANGED <<credits, gpa, storage, note>>]_vars

C8_Witness ==
    /\ last = "addNoop"
    /\ grade # Null
    /\ credit = Null
    /\ note # <<>>
    /\ credits # <<>>

\* C9: a successful add appends one record with the selected grade, the
\* selected credit and the pending note at the end, keeps the earlier
\* records in place, and clears the pending note.
C9_AddAppends ==
    [][(handleAdd /\ grade # Null /\ credit # Null) =>
          /\ Len(credits') = Len(credits) + 1
          /\ \A i \in 1..Len(credits) : credits'[i] = credits[i]
          /\ credits'[Len(credits')]
               = [grade |-> grade[1], credits |-> credit[1], note |-> note]
          /\ note' = <<>>]_vars

C9_Witness ==
    /\ last = "add"
    /\ Len(credits) = 2
    /\ credits[1].grade # credits[2].grade
    /\ "note" \in DOMAIN credits[2]
    /\ credits[2].note = <<"\"">>
    /\ note = <<>>

C11_RemoveAllClears ==
    [][handleRemoveAll =>
          /\ credits' = <<>>
          /\ gpa' = Num(0)
          /\ storage' = Null
          /\ useEffectLoad(storage', Fresh)
               = [pc |-> "ready", credits |-> <<>>, gpa |-> Num(0),
                  title |-> TitleEmpty]]_vars

C11_Witness ==
    /\ last = "removeAll"
    /\ credits = <<>>
    /\ gpa = Num(0)
    /\ storage = Null
    /\ grade # Null

\* C12: whenever the list is empty (at the mount, after the load of an
\* absent or empty slot, after the removal of the last record, after
\* removeAll) the GPA is exactly 0, not the NaN of 0 / 0.
C12_EmptyListZero == credits = <<>> => gpa = Num(0)

C12_Witness ==
    /\ last = "remove"
    /\ credits = <<>>
    /\ gpa = Num(0)
    /\ storage = Some(EmptyArrayText)

\* C13: calculateGpa gives a defined number, never NaN, for every list the
\* validator accepts: the GPA in state, and the GPA calculateGpa computes
\* for the list in state (every list in state was accepted by the load or
\* built by add and remove from an accepted one), is not NaN.
C13_GpaDefined == ~IsNaN(gpa) /\ ~IsNaN(calculateGpa(credits).gpa)

\* one of A, B, C, D alone or followed by one sign, or F alone
StrictGrade(s) ==
    \/ Len(s) = 1 /\ s[1] \in {"A", "B", "C", "D", "F"}
    \/ Len(s) = 2 /\ s[1] \in {"A", "B", "C", "D"} /\ s[2] \in {"+", "-"}

\* the grade of the first record of the slot
SlotGrade == GetProp(JSONParse(storage[1]).v.elems[1], KeyGrade).str

\* C14: the validator accepts a grade string if and only if it is one of
\* A, B, C, D optionally followed by a single + or -, or is exactly F:
\* the load of a slot holding one record with credits 1 admits the record
\* exactly when its grade has that form.
C14_GradePattern ==
    (pc = "ready" /\ storage # Null) =>
        (credits # <<>> <=> StrictGrade(SlotGrade))

\* x, not negative, rounded to the nearest hundredth, a half rounded up
HalfUp(x) == Rat((200 * x.n + x.d) \div (2 * x.d), 100)

\* C15: the GPA line shows the raw GPA rounded to 2 decimal places, a half
\* rounded up, and the raw value in state is not altered by the rounding:
\* it stays the quotient calculateGpa stored and is what the line shows
\* while the pointer is over it.
C15_DisplayHalfUp ==
    (pc = "ready" /\ credits # <<>> /\ ~IsNaN(gpa)) =>
        /\ gpa = NumDiv(totalGrade(credits), totalCredit(credits))
        /\ isHover => displayedGpa = gpa
        /\ ~isHover => displayedGpa = HalfUp(gpa)

\* C16: remove with an index out of range (index < 0 or index >= length)
\* is a no-op: the list, the GPA and the slot, the presence of its key
\* included, are after the call what they were before it.
C16_OutOfRangeNoop ==
    [][\A index \in OutOfRange :
          handleRemove(index) => UNCHANGED <<credits, gpa, storage>>]_vars

\* C17: in every reachable state the GPA lies between 0 and 4 inclusive,
\* whatever the slot held at the load and whatever adds, removes and
\* removeAll follow.
C17_GpaInRange ==
    /\ gpa.d > 0
    /\ 0 <= gpa.n
    /\ gpa.n <= 4 * gpa.d

\* C18: the load never writes the slot, whether validation succeeds or
\* fails: the slot is after the load what it was before, and the only
\* steps that change it are a successful add, a remove and removeAll, so
\* rejected content stays in the slot until one of them.
C18_LoadKeepsSlot ==
    [][/\ Load => storage' = storage
       /\ storage' # storage => last' \in {"add", "remove", "removeAll"}
       /\ ~mutated' => storage' = storage]_vars

C18_Witness ==
    /\ last = "addNoop"
    /\ ~mutated
    /\ credits = <<>>
    /\ storage = Some(TextBadGrade)

\* the record the selections and the empty note give
RepeatRecord == [grade |-> grade[1], credits |-> credit[1], note |-> <<>>]

\* C19: a successful add, every remove and removeAll leave the selected
\* grade and the selected credit unchanged, and only add clears the
\* pending note; so a successful add that follows a successful add, the
\* selections still those of the first, appends a second record with the
\* same grade and credits and an empty note.
C19_SelectionsKept ==
    [][/\ (handleAdd \/ handleRemoveAll
             \/ \E index \in 0..(Len(credits) - 1) : handleRemove(index))
            => grade' = grade /\ credit' = credit
       /\ (handleRemoveAll
             \/ \E index \in 0..(Len(credits) - 1) : handleRemove(index))
            => note' = note
       /\ (/\ handleAdd
           /\ last = "add"
           /\ last' = "add"
           /\ note = <<>>
           /\ credits[Len(credits)].grade = grade[1]
           /\ credits[Len(credits)].credits = credit[1])
            => /\ Len(credits') = Len(credits) + 1
               /\ credits'[Len(credits')] = RepeatRecord
               /\ credits'[Len(credits')].grade = credits'[Len(credits)].grade
               /\ credits'[Len(credits')].credits = credits'[Len(credits)].credits]_vars

C19_Witness ==
    /\ last = "add"
    /\ Len(credits) = 2
    /\ credits[1].grade = credits[2].grade
    /\ credits[1].credits = credits[2].credits
    /\ "note" \in DOMAIN credits[1]
    /\ credits[1].note # <<>>
    /\ credits[2].note = <<>>
    /\ grade = Some(credits[2].grade)
    /\ credit = Some(credits[2].credits)

====
